---- MODULE Spec2Model ----
(***************************************************************************)
(* A model of raycast.py: the occupancy grid (GameMap.get), the grid ray   *)
(* caster (GameMap.cast_ray, Point.step, Point.inspect), the viewer        *)
(* (Player.rotate, Player.walk) and the projector (Camera.project).        *)
(*                                                                         *)
(* Arithmetic is exact.  Lengths and coordinates are integers counted in   *)
(* 1/Unit of a map cell.  Angles are the twelve directions                 *)
(*     q * (pi/2) + r * atan(3/4),   r \in {-1, 0, 1},                     *)
(* written [q |-> q, r |-> r]; their sines and cosines are the rationals   *)
(* 0, +-3/5, +-4/5, +-1, so every step length of a ray is rational and     *)
(* every quantity the code computes is represented without rounding.       *)
(***************************************************************************)
EXTENDS Integers, Sequences, FiniteSets, TLC

VARIABLES size, wall_grid, player, op, turned, pc, info, cast_range, origin,
          ray, get_args, get_result, project_args, wall

vars == <<size, wall_grid, player, op, turned, pc, info, cast_range, origin,
          ray, get_args, get_result, project_args, wall>>

(* Bounds of the model. *)
MaxSize == 2
MaxWalls == 2
MaxRayWalls == 1
MaxPaces == 1
MaxTurn == 9

(* Program constants. *)
NO_WALL == 1000000
CameraRange == 8
SCREEN_HEIGHT == 600

(* One map cell, in the model's length units: divisible by 2 (origins on   *)
(* half cells), by 3 and 4 (slopes 3/4 and 4/3) and by 5 (hypotenuse).     *)
Unit == 2 * 3 * 4 * 5

Abs(n) == IF n < 0 THEN -n ELSE n

(* math.floor and math.ceil on lengths. *)
Floor(x) == (x \div Unit) * Unit
Ceil(x) == -Floor(-x)

(* ------------------------------ angles --------------------------------- *)

CIRCLE == [q |-> 4, r |-> 0]

AngleAdd(a, b) == [q |-> a.q + b.q, r |-> a.r + b.r]

(* Python's a % CIRCLE on floats is a - floor(a / CIRCLE) * CIRCLE.  Since  *)
(* 0 < 2 * atan(3/4) < pi/2, the floor is decided by q and the sign of r.  *)
AngleMod(a) ==
    LET k == IF a.r >= 0 THEN a.q \div 4 ELSE (a.q - 1) \div 4
    IN  [q |-> a.q - 4 * k, r |-> a.r]

(* 0 <= a < 2 * pi *)
InCircle(a) ==
    \/ a.r >= 0 /\ a.q \in 0..3
    \/ a.r < 0 /\ a.q \in 1..4

(* Quarter turn of a vector. *)
RECURSIVE Turn(_, _)
Turn(v, n) == IF n = 0 THEN v ELSE Turn(<<-v[2], v[1]>>, n - 1)

(* <<5 * cos(a), 5 * sin(a)>> *)
CosSin(a) ==
    LET base == IF a.r = 0 THEN <<5, 0>>
                ELSE IF a.r = 1 THEN <<4, 3>> ELSE <<4, -3>>
    IN  Turn(base, a.q % 4)

Cos5(a) == CosSin(a)[1]
Sin5(a) == CosSin(a)[2]

Directions == {a \in [q : 0..4, r : -1..1] : InCircle(a)}

(* ------------------------------- grid ---------------------------------- *)

Cells(n) == (0..(n - 1)) \X (0..(n - 1))

(* GameMap.randomize: every cell is a wall or not; True is 1, False is 0. *)
Grids(n, walls) ==
    {g \in [Cells(n) -> {0, 1}] :
        Cardinality({c \in Cells(n) : g[c] = 1}) <= walls}

(* GameMap.get with int(x) in place of int(math.floor(x)). *)
get_trunc(grid, x, y) ==
    LET trunc(v) == IF v >= 0 THEN v \div Unit ELSE -((-v) \div Unit)
        point == <<trunc(x), trunc(y)>>
    IN  IF point \in DOMAIN grid THEN grid[point] ELSE -1

(* GameMap.get with a blocking default for cells off the map. *)
get_blocking(grid, x, y) ==
    LET point == <<Floor(x) \div Unit, Floor(y) \div Unit>>
    IN  IF point \in DOMAIN grid THEN grid[point] ELSE 1

(* GameMap.get *)
get(grid, x, y) ==
    LET point == <<Floor(x) \div Unit, Floor(y) \div Unit>>
    IN  IF point \in DOMAIN grid THEN grid[point] ELSE -1

(* ------------------------------ ray cast ------------------------------- *)

(* math.hypot; every length the model meets is a whole number of units. *)
RECURSIVE SqrtIn(_, _, _)
SqrtIn(n, lo, hi) ==
    IF lo = hi THEN lo
    ELSE LET mid == (lo + hi + 1) \div 2
         IN  IF mid * mid <= n THEN SqrtIn(n, mid, hi)
             ELSE SqrtIn(n, lo, mid - 1)

Hypot(a, b) ==
    LET n == a * a + b * b
    IN  CHOOSE h \in {SqrtIn(n, 0, Abs(a) + Abs(b))} : h * h = n

(* a / b where b divides a *)
ExactDiv(a, b) == IF b > 0 THEN a \div b ELSE (-a) \div (-b)

(* RayInfo(math.sin(angle), math.cos(angle)), both times five *)
RayInfo(angle) == [sin |-> Sin5(angle), cos |-> Cos5(angle)]

(* Point.__init__(point): length, shading and offset are not set yet. *)
Point(point) == [x |-> point[1], y |-> point[2], height |-> 0, distance |-> 0]

(* Point.step with math.ceil(x) / math.floor(x) as the next grid line. *)
step_on_line(self, rise, run, invert) ==
    LET x == IF invert THEN self.y ELSE self.x
        y == IF invert THEN self.x ELSE self.y
        dx == IF run > 0 THEN Ceil(x) - x ELSE Floor(x) - x
        dy == ExactDiv(dx * rise, run)
    IN  IF run = 0
        THEN [height |-> 0, distance |-> 0, length |-> NO_WALL]
        ELSE [x |-> IF invert THEN y + dy ELSE x + dx,
              y |-> IF invert THEN x + dx ELSE y + dy,
              height |-> 0, distance |-> 0, length |-> Hypot(dx, dy)]

(* Point.step: rise / run raises ZeroDivisionError when run is zero. *)
step(self, rise, run, invert) ==
    LET x == IF invert THEN self.y ELSE self.x
        y == IF invert THEN self.x ELSE self.y
        dx == IF run > 0 THEN Floor(x + Unit) - x ELSE Ceil(x - Unit) - x
        dy == ExactDiv(dx * rise, run)
    IN  IF run = 0
        THEN [height |-> 0, distance |-> 0, length |-> NO_WALL]
        ELSE [x |-> IF invert THEN y + dy ELSE x + dx,
              y |-> IF invert THEN x + dx ELSE y + dy,
              height |-> 0, distance |-> 0, length |-> Hypot(dx, dy)]

(* Point.inspect; shift_x and shift_y are 0 or 1 (cells). *)
inspect(self, inf, grid, shift_x, shift_y, distance, offset) ==
    LET dx == IF inf.cos < 0 THEN shift_x * Unit ELSE 0
        dy == IF inf.sin < 0 THEN shift_y * Unit ELSE 0
    IN  [x |-> self.x, y |-> self.y, length |-> self.length,
         height |-> get(grid, self.x - dx, self.y - dy),
         distance |-> distance + self.length,
         shading |-> IF shift_x # 0
                     THEN (IF inf.cos < 0 THEN 2 ELSE 0)
                     ELSE (IF inf.sin < 0 THEN 2 ELSE 1),
         offset |-> offset - Floor(offset)]

(* The body of the loop of cast_ray with <= in the comparison of lengths. *)
next_step_le(orig, inf, grid) ==
    LET dist == orig.distance
        step_x == step(orig, inf.sin, inf.cos, FALSE)
        step_y == step(orig, inf.cos, inf.sin, TRUE)
    IN  IF step_x.length <= step_y.length
        THEN inspect(step_x, inf, grid, 1, 0, dist, step_x.y)
        ELSE inspect(step_y, inf, grid, 0, 1, dist, step_y.x)

(* The body of the loop of cast_ray: the point appended to the ray. *)
next_step(orig, inf, grid) ==
    LET dist == orig.distance
        step_x == step(orig, inf.sin, inf.cos, FALSE)
        step_y == step(orig, inf.cos, inf.sin, TRUE)
    IN  IF step_x.length < step_y.length
        THEN inspect(step_x, inf, grid, 1, 0, dist, step_x.y)
        ELSE inspect(step_y, inf, grid, 0, 1, dist, step_y.x)

(* The loop condition of cast_ray with < in place of <=. *)
loop_cond_strict(orig, range) == orig.height <= 0 /\ orig.distance < range

(* The loop condition of cast_ray. *)
loop_cond(orig, range) == orig.height <= 0 /\ orig.distance <= range

(* ------------------------- values of idle parts ------------------------ *)

NoPlayer == [x |-> 0, y |-> 0, direction |-> [q |-> 0, r |-> 0], paces |-> 0]
NoAngle == [q |-> 0, r |-> 0]
NoOp == [name |-> "none", distance |-> 0, angle |-> NoAngle]
NoTurn == [from |-> NoAngle, by |-> NoAngle]
NoWall == [top |-> [n |-> 0, d |-> 1], height |-> 0]
NoArgs == [height |-> [n |-> 0, d |-> 1], angle |-> NoAngle,
           distance |-> [n |-> 0, d |-> 1]]
NoInfo == [sin |-> 0, cos |-> 5]

PlayerIdle == player = NoPlayer /\ op = NoOp /\ turned = NoTurn
RayIdle == /\ pc = "idle" /\ info = NoInfo /\ cast_range = 0
           /\ origin = Point(<<0, 0>>) /\ ray = <<>>
GetIdle == get_args = <<0, 0>> /\ get_result = 0
ProjectIdle == project_args = NoArgs /\ wall = NoWall

playerVars == <<player, op, turned>>
rayVars == <<pc, info, cast_range, origin, ray>>
getVars == <<get_args, get_result>>
projectVars == <<project_args, wall>>
mapVars == <<size, wall_grid>>

InitMap(walls) == size \in 1..MaxSize /\ wall_grid \in Grids(size, walls)

(* --------------------- specification of GameMap.get -------------------- *)

(* Coordinates from one cell before the map to one cell after it. *)
Coords(n) == {k * (Unit \div 4) : k \in -4..(4 * n + 4)}

InitGet == /\ InitMap(MaxWalls)
           /\ get_args = <<0, 0>> /\ get_result = 0
           /\ op = NoOp /\ player = NoPlayer /\ turned = NoTurn
           /\ RayIdle /\ ProjectIdle

(* A call game_map.get(x, y). *)
Get ==
    \E x \in Coords(size), y \in Coords(size) :
        /\ get_args' = <<x, y>>
        /\ get_result' = get(wall_grid, x, y)
        /\ op' = [NoOp EXCEPT !.name = "get"]
        /\ UNCHANGED <<mapVars, player, turned, rayVars, projectVars>>

NextGet == Get
SpecGet == InitGet /\ [][NextGet]_vars

(* The cell of (x, y) is not one of [0, size) x [0, size). *)
OffMap(x, y) == x < 0 \/ x >= size * Unit \/ y < 0 \/ y >= size * Unit

(* The cell of the map that holds (x, y). *)
CellOf(x, y) ==
    CHOOSE c \in Cells(size) :
        /\ c[1] * Unit <= x /\ x < (c[1] + 1) * Unit
        /\ c[2] * Unit <= y /\ y < (c[2] + 1) * Unit

(* C1, as claimed: for a coordinate whose cell is off the map, get returns *)
(* a value its callers take as blocked (> 0).                              *)
C1_OffMapBlocked ==
    (op.name = "get" /\ OffMap(get_args[1], get_args[2])) => get_result > 0

(* C1, amended: get returns -1 for a coordinate whose cell is off the map, *)
(* which its callers take as open (<= 0), and the value stored for the     *)
(* floored cell otherwise; it has a result for every finite coordinate.    *)
C1_OffMapOpen ==
    op.name = "get" =>
        /\ get_result \in {-1, 0, 1}
        /\ OffMap(get_args[1], get_args[2])
              => get_result = -1 /\ get_result <= 0
        /\ ~OffMap(get_args[1], get_args[2])
              => get_result = wall_grid[CellOf(get_args[1], get_args[2])]

C1_Witness ==
    /\ op.name = "get"
    /\ -Unit < get_args[1] /\ get_args[1] < 0
    /\ 0 <= get_args[2] /\ get_args[2] < size * Unit
    /\ get_result = -1

(* ------------------- specification of GameMap.cast_ray ----------------- *)

OriginCoords(n) == {k * (Unit \div 2) : k \in -1..(2 * n + 1)}
CastRanges == {Unit, CameraRange * Unit}

InitRay == InitMap(MaxRayWalls) /\ RayIdle /\ PlayerIdle /\ GetIdle /\ ProjectIdle

(* cast_ray, lines 122-124: the call and the first point. *)
CastRay ==
    /\ pc = "idle"
    /\ \E px \in OriginCoords(size), py \in OriginCoords(size),
          angle \in Directions, range \in CastRanges :
        /\ info' = RayInfo(angle)
        /\ origin' = Point(<<px, py>>)
        /\ ray' = <<Point(<<px, py>>)>>
        /\ cast_range' = range
    /\ pc' = "loop"
    /\ UNCHANGED <<mapVars, playerVars, getVars, projectVars>>

(* cast_ray, lines 125-134: one iteration of the loop. *)
Loop ==
    /\ pc = "loop"
    /\ loop_cond(origin, cast_range)
    /\ origin' = next_step(origin, info, wall_grid)
    /\ ray' = Append(ray, origin')
    /\ UNCHANGED <<pc, info, cast_range, mapVars, playerVars, getVars,
                   projectVars>>

(* cast_ray, line 135: the loop is left and the ray returned. *)
Return ==
    /\ pc = "loop"
    /\ ~loop_cond(origin, cast_range)
    /\ pc' = "done"
    /\ UNCHANGED <<info, cast_range, origin, ray, mapVars, playerVars,
                   getVars, projectVars>>

NextRay == CastRay \/ Loop \/ Return
SpecRay == InitRay /\ [][NextRay]_vars

(* Every point of a ray lies on the line through its first point. *)
RayExact ==
    \A i \in 2..Len(ray) :
        /\ (ray[i].x - ray[1].x) * info.sin = (ray[i].y - ray[1].y) * info.cos
        /\ ray[i].length < NO_WALL

Last(r) == r[Len(r)]

(* The point lies off the closed square [0, size] x [0, size] of the map. *)
StrictlyOutside(p) ==
    \/ p.x < 0 \/ p.x > size * Unit
    \/ p.y < 0 \/ p.y > size * Unit

InsideMap(p) ==
    /\ 0 <= p.x /\ p.x <= size * Unit
    /\ 0 <= p.y /\ p.y <= size * Unit

(* The 1x1 map with cell (0,0) open, cast_ray((0.5, 0.5), 0, 8). *)
Scenario1x1 ==
    /\ size = 1 /\ wall_grid[<<0, 0>>] = 0
    /\ Len(ray) >= 1
    /\ ray[1].x = Unit \div 2 /\ ray[1].y = Unit \div 2
    /\ info = [sin |-> 0, cos |-> 5]
    /\ cast_range = CameraRange * Unit

(* C2, as claimed: a ray cast from inside the map never gets past the      *)
(* map's border, and in the 1x1 scenario the returned ray ends in a hit at *)
(* distance 0.5 with shading class 0.                                      *)
C2_NoEscape ==
    /\ (Len(ray) >= 1 /\ InsideMap(ray[1]))
         => \A i \in 2..Len(ray) : ~StrictlyOutside(ray[i])
    /\ (pc = "done" /\ Scenario1x1)
         => /\ Last(ray).height > 0
            /\ Last(ray).distance = Unit \div 2
            /\ Last(ray).shading = 0

(* C2, amended: a crossing past the border of the map gets height -1,     *)
(* which is not a hit, so the ray leaves the map; in the 1x1 scenario the  *)
(* first crossing is at distance 0.5 with shading class 0 and height -1,   *)
(* and the ray has ten points, the last at distance 8.5 with height -1.    *)
C2_Escapes ==
    /\ \A i \in 2..Len(ray) : StrictlyOutside(ray[i]) => ray[i].height = -1
    /\ (pc = "done" /\ Scenario1x1)
         => /\ Len(ray) = 10
            /\ ray[2].distance = Unit \div 2
            /\ ray[2].shading = 0
            /\ ray[2].height = -1
            /\ Last(ray).height = -1
            /\ Last(ray).shading = 0
            /\ 2 * Last(ray).distance = 17 * Unit

C2_Witness == pc = "done" /\ Scenario1x1 /\ StrictlyOutside(Last(ray))

(* C3, as claimed: the last point of a returned ray has distance <= R. *)
C3_LastWithinRange ==
    pc = "done" => Last(ray).distance <= cast_range

(* C3, amended: every point of a returned ray but the last has height <= 0 *)
(* and distance <= R; the last has height > 0 or distance > R.             *)
C3_LastEndsLoop ==
    pc = "done" =>
        /\ Last(ray).height > 0 \/ Last(ray).distance > cast_range
        /\ \A i \in 1..(Len(ray) - 1) :
              ray[i].height <= 0 /\ ray[i].distance <= cast_range

C3_Witness ==
    /\ pc = "done"
    /\ Last(ray).height > 0
    /\ Last(ray).distance > cast_range

(* C4: along a ray the distance grows strictly from each point to the     *)
(* next, every selected step has a finite length > 0, and a ray of range R *)
(* has at most 2 * R + 4 points, so the loop ends.                         *)
C4_DistanceIncreases ==
    /\ \A i \in 2..Len(ray) :
          /\ ray[i].length > 0
          /\ ray[i].length < NO_WALL
          /\ ray[i].distance > ray[i - 1].distance
    /\ Len(ray) * Unit <= 2 * cast_range + 4 * Unit

C4_Witness ==
    /\ pc = "done"
    /\ Len(ray) > 2
    /\ ray[1].x % Unit = 0
    /\ info.sin = 0

(* The crossing ray[i] is the candidate on a vertical or horizontal line. *)
IsCandidate(p, cand, shade) ==
    /\ p.x = cand.x /\ p.y = cand.y
    /\ p.length = cand.length
    /\ p.shading = shade

VerticalShade == IF info.cos < 0 THEN 2 ELSE 0
HorizontalShade == IF info.sin < 0 THEN 2 ELSE 1

StepX(i) == step(ray[i - 1], info.sin, info.cos, FALSE)
StepY(i) == step(ray[i - 1], info.cos, info.sin, TRUE)

(* C8, as claimed: the shorter candidate is selected, and on equal lengths *)
(* the vertical-line candidate.                                            *)
C8_TieVertical ==
    \A i \in 2..Len(ray) :
        LET step_x == StepX(i)
            step_y == StepY(i)
        IN  /\ step_x.length <= step_y.length
                  => IsCandidate(ray[i], step_x, VerticalShade)
            /\ step_y.length < step_x.length
                  => IsCandidate(ray[i], step_y, HorizontalShade)

(* C8, amended: the shorter candidate is selected, and on equal lengths    *)
(* the horizontal-line candidate (shading class 1 or 2 by the sign of sin).*)
C8_TieHorizontal ==
    \A i \in 2..Len(ray) :
        LET step_x == StepX(i)
            step_y == StepY(i)
        IN  /\ step_x.length < step_y.length
                  => IsCandidate(ray[i], step_x, VerticalShade)
            /\ step_y.length <= step_x.length
                  => IsCandidate(ray[i], step_y, HorizontalShade)

C8_Witness ==
    /\ pc = "done"
    /\ \E i \in 2..Len(ray) :
          /\ StepX(i).length = StepY(i).length
          /\ ray[i].shading = 1

(* The occupancy of the cell the ray is in right after the point p. *)
Entered(p) ==
    get(wall_grid,
        p.x - (IF p.x % Unit = 0 /\ info.cos < 0 THEN Unit ELSE 0),
        p.y - (IF p.y % Unit = 0 /\ info.sin < 0 THEN Unit ELSE 0))

(* C9, as claimed: at every crossing the height is that of the cell the   *)
(* ray enters there, and a ray cast from an open cell enters no solid cell *)
(* before its last point.                                                  *)
C9_EnteredCellProbed ==
    /\ \A i \in 2..Len(ray) : ray[i].height = Entered(ray[i])
    /\ (Len(ray) >= 1 /\ get(wall_grid, ray[1].x, ray[1].y) <= 0)
         => \A i \in 1..(Len(ray) - 1) : Entered(ray[i]) <= 0

(* ---------------------- specification of the Player -------------------- *)

(* C's fmod: the remainder has the sign of the dividend. *)
AngleFmod(a) ==
    IF a.q < 0 \/ (a.q = 0 /\ a.r < 0)
    THEN LET m == AngleMod([q |-> -a.q, r |-> -a.r])
         IN  [q |-> -m.q, r |-> -m.r]
    ELSE AngleMod(a)

(* Player.rotate with the remainder of C in place of Python's %. *)
rotate_fmod(self, angle) ==
    [self EXCEPT !.direction =
        AngleFmod(AngleAdd(AngleAdd(self.direction, angle), CIRCLE))]

(* Player.rotate *)
rotate(self, angle) ==
    [self EXCEPT !.direction =
        AngleMod(AngleAdd(AngleAdd(self.direction, angle), CIRCLE))]

(* math.cos(direction) * distance and math.sin(direction) * distance *)
WalkDx(direction, distance) == ExactDiv(Cos5(direction) * distance, 5)
WalkDy(direction, distance) == ExactDiv(Sin5(direction) * distance, 5)

(* Player.walk with the test of the y axis made at the old x. *)
walk_old_x(self, distance, grid) ==
    LET dx == WalkDx(self.direction, distance)
        dy == WalkDy(self.direction, distance)
        x1 == IF get(grid, self.x + dx, self.y) <= 0
              THEN self.x + dx ELSE self.x
        y1 == IF get(grid, self.x, self.y + dy) <= 0
              THEN self.y + dy ELSE self.y
    IN  [self EXCEPT !.x = x1, !.y = y1, !.paces = self.paces + distance]

(* Player.walk with the paces counted only when the player moves. *)
walk_paces_if_moved(self, distance, grid) ==
    LET dx == WalkDx(self.direction, distance)
        dy == WalkDy(self.direction, distance)
        x1 == IF get(grid, self.x + dx, self.y) <= 0
              THEN self.x + dx ELSE self.x
        y1 == IF get(grid, x1, self.y + dy) <= 0
              THEN self.y + dy ELSE self.y
    IN  [self EXCEPT !.x = x1, !.y = y1,
                     !.paces = IF x1 # self.x \/ y1 # self.y
                               THEN self.paces + distance ELSE self.paces]

(* Player.walk *)
walk(self, distance, grid) ==
    LET dx == WalkDx(self.direction, distance)
        dy == WalkDy(self.direction, distance)
        x1 == IF get(grid, self.x + dx, self.y) <= 0
              THEN self.x + dx ELSE self.x
        y1 == IF get(grid, x1, self.y + dy) <= 0
              THEN self.y + dy ELSE self.y
    IN  [self EXCEPT !.x = x1, !.y = y1, !.paces = self.paces + distance]

(* The player stands on thirds of a cell, up to a third off the map. *)
PlayerCoords(n) == {k * (Unit \div 3) : k \in -1..(3 * n)}

(* A pace of 5/3 of a cell moves the player by 1, 4/3 or 5/3 of a cell    *)
(* along each axis; forward and backward.                                  *)
Pace == 5 * (Unit \div 3)
Distances == {Pace, -Pace}

(* Angles of rotation, some of them beyond a full circle either way. *)
Angles == {a \in [q : {-5, -1, 0, 1, 5}, r : -1..1] : a # NoAngle}

Players(n, grid) ==
    {p \in [x : PlayerCoords(n), y : PlayerCoords(n),
            direction : Directions, paces : {0}] :
        get(grid, p.x, p.y) <= 0}

(* A call player.rotate(angle). *)
RotateCall(angle) ==
    /\ (player.direction.r + angle.r) \in -1..1
    /\ player' = rotate(player, angle)
    /\ UNCHANGED <<mapVars, rayVars, getVars, projectVars>>

(* A call player.walk(distance, game_map). *)
WalkCall(distance) ==
    /\ Abs(player.paces + distance) <= MaxPaces * Pace
    /\ (player.x + WalkDx(player.direction, distance)) \in PlayerCoords(size)
    /\ (player.y + WalkDy(player.direction, distance)) \in PlayerCoords(size)
    /\ player' = walk(player, distance, wall_grid)
    /\ UNCHANGED <<mapVars, rayVars, getVars, projectVars>>

Init == /\ InitMap(MaxWalls)
        /\ player \in Players(size, wall_grid)
        /\ op = NoOp /\ turned = NoTurn
        /\ RayIdle /\ GetIdle /\ ProjectIdle

Rotate == \E angle \in Angles : RotateCall(angle) /\ UNCHANGED <<op, turned>>

Walk == \E distance \in Distances :
            WalkCall(distance) /\ UNCHANGED <<op, turned>>

Next == Rotate \/ Walk
Spec == Init /\ [][Next]_vars

(* C10: a player who starts where the map is open is never at a position  *)
(* where GameMap.get is > 0, whatever rotations and walks are made.        *)
C10_NeverInWall == get(wall_grid, player.x, player.y) <= 0

(* The player stands on the map beside a wall cell, after a walk. *)
C10_Witness ==
    /\ player.paces # 0
    /\ ~OffMap(player.x, player.y)
    /\ \E c \in Cells(size) :
          /\ wall_grid[c] = 1
          /\ Abs(c[1] - CellOf(player.x, player.y)[1]) <= 1
          /\ Abs(c[2] - CellOf(player.x, player.y)[2]) <= 1

(* One walk after another from any open position, each call recorded. *)
WalkRecorded ==
    \E distance \in Distances :
        /\ WalkCall(distance)
        /\ op' = [NoOp EXCEPT !.name = "walk", !.distance = distance]
        /\ UNCHANGED turned

NextWalk == WalkRecorded
SpecWalk == Init /\ [][NextWalk]_vars

(* Both tests of walk(distance) find a wall: get > 0 at (x+dx, y) and at  *)
(* (x, y+dy).                                                              *)
BlockedBoth(self, distance) ==
    /\ get(wall_grid, self.x + WalkDx(self.direction, distance), self.y) > 0
    /\ get(wall_grid, self.x, self.y + WalkDy(self.direction, distance)) > 0

(* C5: a walk that is blocked on both axes leaves x, y and the direction   *)
(* as they were and adds the attempted distance to the paces.              *)
C5_BlockedWalk ==
    [][BlockedBoth(player, op'.distance)
          => /\ player'.x = player.x
             /\ player'.y = player.y
             /\ player'.direction = player.direction
             /\ player'.paces = player.paces + op'.distance]_vars

C5_Witness ==
    /\ op.name = "walk"
    /\ player.paces = op.distance
    /\ BlockedBoth(player, op.distance)

(* Rotations only, with the starting direction and the sum of the angles. *)
InitRotate ==
    /\ size = 1 /\ wall_grid = [c \in Cells(1) |-> 0]
    /\ player \in [x : {0}, y : {0}, direction : Directions, paces : {0}]
    /\ turned = [from |-> player.direction, by |-> NoAngle]
    /\ op = NoOp
    /\ RayIdle /\ GetIdle /\ ProjectIdle

RotateRecorded ==
    \E angle \in Angles :
        /\ Abs(turned.by.q + angle.q) <= MaxTurn
        /\ RotateCall(angle)
        /\ turned' = [turned EXCEPT !.by = AngleAdd(turned.by, angle)]
        /\ op' = [NoOp EXCEPT !.name = "rotate", !.angle = angle]

NextRotate == RotateRecorded
SpecRotate == InitRotate /\ [][NextRotate]_vars

(* C6: after any rotations the direction is in [0, 2*pi) and is the       *)
(* starting direction plus the sum of the angles, modulo 2*pi.             *)
C6_DirectionWraps ==
    /\ InCircle(player.direction)
    /\ player.direction = AngleMod(AngleAdd(turned.from, turned.by))

C6_Witness ==
    /\ op.name = "rotate"
    /\ op.angle.q = -5
    /\ turned.by.q < -4

(* ------------------- specification of Camera.project ------------------- *)

(* Rationals n / d with d > 0. *)
Rat(n, d) == IF d < 0 THEN [n |-> -n, d |-> -d] ELSE [n |-> n, d |-> d]
RMul(a, b) == Rat(a.n * b.n, a.d * b.d)
RDiv(a, b) == Rat(a.n * b.d, a.d * b.n)
RAdd(a, b) == Rat(a.n * b.d + b.n * a.d, a.d * b.d)
RSub(a, b) == Rat(a.n * b.d - b.n * a.d, a.d * b.d)
RLess(a, b) == a.n * b.d < b.n * a.d
REq(a, b) == a.n * b.d = b.n * a.d
RMax(a, b) == IF RLess(a, b) THEN b ELSE a
RAbs(a) == Rat(Abs(a.n), a.d)
(* int(): towards zero *)
RInt(a) == IF a.n >= 0 THEN a.n \div a.d ELSE -((-a.n) \div a.d)

RCos(angle) == Rat(Cos5(angle), 5)

(* Camera.project with z clamped only when it is near zero. *)
project_clamp_near(height, angle, distance) ==
    LET zz == RMul(distance, RCos(angle))
        z == IF RLess(RAbs(zz), Rat(1, 5)) THEN Rat(1, 5) ELSE zz
        wall_height == RDiv(RMul(Rat(SCREEN_HEIGHT, 1), height), z)
        bottom == RMul(Rat(SCREEN_HEIGHT, 2),
                       RAdd(Rat(1, 1), RDiv(Rat(1, 1), z)))
    IN  [top |-> RSub(bottom, wall_height), height |-> RInt(wall_height)]

(* Camera.project; self.height is the height of the window. *)
project(height, angle, distance) ==
    LET z == RMax(RMul(distance, RCos(angle)), Rat(1, 5))
        wall_height == RDiv(RMul(Rat(SCREEN_HEIGHT, 1), height), z)
        bottom == RMul(Rat(SCREEN_HEIGHT, 2),
                       RAdd(Rat(1, 1), RDiv(Rat(1, 1), z)))
    IN  [top |-> RSub(bottom, wall_height), height |-> RInt(wall_height)]

(* Heights -1 (off the map), 0, 0.1 (rain) and 1 (a wall); distances 0 to *)
(* half a cell beyond the range of the camera, in halves of a cell.        *)
Heights == {Rat(-1, 1), Rat(0, 1), Rat(1, 10), Rat(1, 1)}
ProjectDistances == {Rat(k, 2) : k \in 0..(2 * CameraRange + 1)}

InitProject ==
    /\ size = 1 /\ wall_grid = [c \in Cells(1) |-> 0]
    /\ project_args \in [height : Heights, angle : Directions,
                         distance : ProjectDistances]
    /\ wall = NoWall
    /\ PlayerIdle /\ RayIdle /\ GetIdle

(* A call camera.project(height, angle, distance). *)
Project ==
    /\ op.name = "none"
    /\ wall' = project(project_args.height, project_args.angle,
                       project_args.distance)
    /\ op' = [NoOp EXCEPT !.name = "project"]
    /\ UNCHANGED <<mapVars, player, turned, rayVars, getVars, project_args>>

NextProject == Project
SpecProject == InitProject /\ [][NextProject]_vars

(* C7: for height >= 0 and distance > 0 the wall height returned is >= 0  *)
(* and, z being at least 0.2, at most 5 * 600 * height; project(1, 0, 1)   *)
(* returns top 0 and wall height 600.                                      *)
C7_WallHeight ==
    op.name = "project" =>
        /\ (project_args.height.n >= 0 /\ project_args.distance.n > 0)
              => /\ wall.height >= 0
                 /\ wall.height * project_args.height.d
                       <= 5 * SCREEN_HEIGHT * project_args.height.n
        /\ (/\ REq(project_args.height, Rat(1, 1))
            /\ project_args.angle = NoAngle
            /\ REq(project_args.distance, Rat(1, 1)))
              => REq(wall.top, Rat(0, 1)) /\ wall.height = SCREEN_HEIGHT

C7_Witness ==
    /\ op.name = "project"
    /\ project_args.height = Rat(1, 1)
    /\ Cos5(project_args.angle) < 0
    /\ project_args.distance.n > 0
    /\ wall.height = 5 * SCREEN_HEIGHT
====
